---- MODULE Spec2Model ----
(***************************************************************************)
(* A model of terminalclustering: the KataGo engine-process client         *)
(* (katago.rs) and the bounded game scheduler of main (main.rs).           *)
(*                                                                         *)
(* Spec      : the client.  Caller tasks run KataGo::analyze step by step  *)
(*             (fetch_add, insert into `pending`, write_request, rx.await) *)
(*             against the reader task of spawn_reader and an engine that  *)
(*             answers in any order, emits noise and may exit.             *)
(* FairSpec  : Spec with weak fairness of the caller and reader tasks.     *)
(* LateSpec  : Spec started with the id counter at u32::MAX.               *)
(* GoodSpec  : the client under fair scheduling with an engine that        *)
(*             answers every request line once and keeps its output open.  *)
(* SchedSpec : the for/while loops of main over the FuturesUnordered pool. *)
(* PickSpec  : pick_move applied to every list of evaluations of a bounded *)
(*             domain, dist.sample being a choice among the indices of     *)
(*             non-zero weight.                                            *)
(* GameSpec  : run_game against every script of replies that leads to some *)
(*             moves and then to a "pass".                                 *)
(* SgfSpec   : move_to_string followed by string_to_move (sgf.rs) on the   *)
(*             pass and on every point of the board.                       *)
(***************************************************************************)
EXTENDS Integers, Sequences, FiniteSets

\* ------------------------------------------------------------------ bounds
NumCallers == 2      \* tasks calling analyze concurrently
MaxCalls == 2        \* analyze calls started in one behaviour
MaxOut == 2          \* lines the engine emits in one behaviour

MaxGames == 3        \* largest number of playouts
MaxCap == 3          \* largest num_analysis_threads
MaxMoves == 1        \* moves a game plays before it must end

\* -------------------------------------------------------- program constants
Limb == 65536        \* AtomicU32 is kept as two 16-bit limbs <<hi, lo>>
FirstId == 1         \* next_id: AtomicU32::new(1)

Callers == 1..NumCallers

VARIABLES
    next_id,        \* KataGo.next_id, the u32 counter as <<hi, lo>>
    started_at,     \* the value next_id had when the behaviour starts
    pending,        \* KataGo.pending: set of [id, tx], tx = <<caller, call>>
    pending_lock,   \* holder of the pending Mutex: Free, ReaderTask or Task(c)
    stdin_lock,     \* holder of the stdin Mutex: Free or Task(c)
    stdin_bytes,    \* what has been written to the engine's stdin, in order
    pc,             \* each caller's position in analyze / write_request
    call_no,        \* each caller's number of analyze calls started
    call_id,        \* the id string of each caller's current (or last) call
    rx,             \* each caller's oneshot receiver: [st, resp]
    result,         \* what each caller's last analyze call returned
    engine,         \* "running" or "exited"
    stdout,         \* lines the engine has written and the reader has not read
    n_out,          \* number of lines the engine has emitted
    reader_pc,      \* position of the reader task
    cur,            \* the last line the reader took from stdout
    waiting_at_end, \* the calls that were waiting when the read loop ended
    dropped         \* TRUE once Drop for KataGo has run

client_vars == <<next_id, started_at, pending, pending_lock, stdin_lock,
                 stdin_bytes, pc, call_no, call_id, rx, result, engine,
                 stdout, n_out, reader_pc, cur, waiting_at_end, dropped>>

\* The scheduler of main (main.rs, lines 40-82).
VARIABLES
    cap,            \* config.num_analysis_threads
    playouts,       \* args.playouts
    first_len,      \* stones.len(): the length of the loaded game
    main_pc,        \* main's position: "for", "for_next", "while", "done", "failed"
    started,        \* iterations of the for loop so far (games pushed)
    futures,        \* the FuturesUnordered pool: the games in it
    game,           \* each game's run_game future: [st, len]
    outputs         \* the games saved so far ({i}.sgf), in the order of saving

sched_vars == <<cap, playouts, first_len, main_pc, started, futures, game,
                outputs>>

\* pick_move (katago.rs, lines 58-79) called on its own.
VARIABLES
    moves,          \* the argument: a sequence of [mov, utility, score_lead]
    pm_pc,          \* "call", "sample" (the loop of line 72) or "returned"
    tries,          \* iterations of the loop of line 72 begun so far
    choice,         \* the index dist.sample gave in the last iteration, or 0
    picked          \* what pick_move returned: [kind, idx]

pick_vars == <<moves, pm_pc, tries, choice, picked>>

\* run_game (katago.rs, lines 171-198) against scripted replies.
VARIABLES
    initial_stones, \* the argument of run_game
    script,         \* what the successive analyze calls will give
    stones,         \* the local `stones`
    requests,       \* the histories sent by the analyze calls so far
    analysis_result,\* what the last analyze call gave, or NoReply
    rg_pc,          \* "analyze", "pick" or "returned"
    rg_result       \* the history run_game returned

game_vars == <<initial_stones, script, stones, requests, analysis_result,
               rg_pc, rg_result>>

\* move_to_string and string_to_move (sgf.rs, lines 13-32) applied in turn.
VARIABLES
    sgf_mv,         \* the move that is encoded
    sgf_str,        \* move_to_string of it
    sgf_back,       \* string_to_move of that string
    sgf_pc          \* "encode", "decode" or "done"

sgf_vars == <<sgf_mv, sgf_str, sgf_back, sgf_pc>>

\* The engine of GoodSpec.
VARIABLES
    replied         \* the ids of the request lines the engine has answered

rest_vars == <<pick_vars, game_vars, sgf_vars, replied>>

vars == <<client_vars, sched_vars, rest_vars>>

\* ------------------------------------------------------------ the counter
\* u32 arithmetic on <<hi, lo>>, value = hi * 2^16 + lo.
U32Max == <<Limb - 1, Limb - 1>>

\* fetch_add(1): wrapping addition modulo 2^32.
WrappingInc(n) ==
    IF n[2] + 1 < Limb THEN <<n[1], n[2] + 1>>
    ELSE <<(n[1] + 1) % Limb, 0>>

U32Less(a, b) == a[1] < b[1] \/ (a[1] = b[1] /\ a[2] < b[2])

\* u32::to_string: the decimal digits, most significant first, no leading 0.
RECURSIVE Digits(_, _)
Digits(hi, lo) ==
    LET t == (hi % 10) * Limb + lo
        qhi == hi \div 10
        qlo == t \div 10
    IN  IF qhi = 0 /\ qlo = 0 THEN <<t % 10>>
        ELSE Append(Digits(qhi, qlo), t % 10)

to_string(n) == Digits(n[1], n[2])

\* ------------------------------------------------------------- the tables
NoId == <<>>

\* The holders of a tokio Mutex.
Free == [who |-> "nobody", c |-> 0]
ReaderTask == [who |-> "reader", c |-> 0]
Task(c) == [who |-> "caller", c |-> c]

\* HashMap::insert: the new value replaces an entry under the same key.
insert(table, id, tx) ==
    {e \in table : e.id # id} \cup {[id |-> id, tx |-> tx]}

\* remove that ignores the key and takes out whichever entry it finds.
remove_any(table, id) ==
    IF table = {} THEN {} ELSE {CHOOSE e \in table : TRUE}

\* The entries HashMap::remove(&id) takes out of the table.
remove(table, id) == {e \in table : e.id = id}

\* The receiver of sender tx still exists and has not been resolved.
Live(tx) == call_no[tx[1]] = tx[2] /\ rx[tx[1]].st = "empty"

\* oneshot: dropping the senders txs resolves their live receivers to Err.
DropSenders(txs) ==
    [c \in Callers |->
        IF \E tx \in txs : tx[1] = c /\ Live(tx)
        THEN [st |-> "closed", resp |-> NoId] ELSE rx[c]]

\* oneshot: tx.send(resp); a send to a dropped receiver is discarded.
Send(txs, resp) ==
    [c \in Callers |->
        IF \E tx \in txs : tx[1] = c /\ Live(tx)
        THEN [st |-> "value", resp |-> resp] ELSE rx[c]]

NoRx == [st |-> "none", resp |-> NoId]

NoResult == [call |-> 0, id |-> NoId, kind |-> "none", resp |-> NoId]

\* ----------------------------------------------------- the stdin stream
Body(id) == [t |-> "body", id |-> id]
Newline == [t |-> "nl", id |-> NoId]

\* The ids of the complete request lines the engine has received.
Received ==
    {stdin_bytes[i].id : i \in {j \in 1..(Len(stdin_bytes) - 1) :
        stdin_bytes[j].t = "body" /\ stdin_bytes[j + 1].t = "nl"}}

\* write_all on the pipe: fails (EPIPE) once the engine has exited.
WriteOk == engine = "running"

\* An id no request carries: to_string never yields a leading zero.
StrayIds == {<<0, 1>>}

\* The scheduler's variables in the specifications of the client alone.
SchedIdle ==
    /\ cap = 1
    /\ playouts = 0
    /\ first_len = 0
    /\ main_pc = "for"
    /\ started = 0
    /\ futures = {}
    /\ game = <<>>
    /\ outputs = <<>>

\* The state KataGo::new leaves, with next_id at `first`.
InitAt(first) ==
    /\ next_id = first
    /\ started_at = next_id
    /\ pending = {}
    /\ pending_lock = Free
    /\ stdin_lock = Free
    /\ stdin_bytes = <<>>
    /\ pc = [c \in Callers |-> "idle"]
    /\ call_no = [c \in Callers |-> 0]
    /\ call_id = [c \in Callers |-> NoId]
    /\ rx = [c \in Callers |-> NoRx]
    /\ result = [c \in Callers |-> NoResult]
    /\ engine = "running"
    /\ stdout = <<>>
    /\ n_out = 0
    /\ reader_pc = "read"
    /\ cur = [k |-> "none", id |-> NoId]
    /\ waiting_at_end = {}
    /\ dropped = FALSE

\* line 113: next_id: AtomicU32::new(1)
\* The variables of pick_move where pick_move is not what is run.
PickIdle ==
    /\ moves = <<>>
    /\ pm_pc = "returned"
    /\ tries = 0
    /\ choice = 0
    /\ picked = [kind |-> "none", idx |-> 0]

\* The variables of run_game where run_game is not what is run.
GameIdle ==
    /\ initial_stones = <<>>
    /\ script = <<>>
    /\ stones = <<>>
    /\ requests = <<>>
    /\ analysis_result = [current_player |-> "none", mov |-> "none"]
    /\ rg_pc = "returned"
    /\ rg_result = <<>>

\* The variables of the conversions where they are not what is run.
SgfIdle ==
    /\ sgf_mv = [kind |-> "pass", x |-> 0, y |-> 0]
    /\ sgf_str = <<>>
    /\ sgf_back = [kind |-> "pass", x |-> 0, y |-> 0]
    /\ sgf_pc = "done"

RestIdle == PickIdle /\ GameIdle /\ SgfIdle /\ replied = {}

Init == InitAt(<<0, FirstId>>) /\ SchedIdle /\ RestIdle

\* The client after 2^32 - 2 calls have been made and have returned: the
\* state of Init but for the counter, which stands at u32::MAX.
InitLate == InitAt(U32Max) /\ SchedIdle /\ RestIdle

\* ------------------------------------------------------ KataGo::analyze
RECURSIVE SumTo(_, _)
SumTo(f, n) == IF n = 0 THEN 0 ELSE f[n] + SumTo(f, n - 1)

CallsStarted == SumTo(call_no, NumCallers)

\* The tasks are interchangeable: they are numbered in the order in which
\* they make their first call.
InOrder(c) == \A d \in Callers : d < c => call_no[d] > 0

\* What an analyze call result: Ok(resp) with the response's id, or Err.
Result(c, kind, resp) ==
    [call |-> call_no[c], id |-> call_id[c], kind |-> kind, resp |-> resp]

\* analyze with write_request (line 137) called before the entry is
\* inserted (line 136).
WriteBeforeInsert(step) ==
    CASE step = "fetch_add" -> "lock_stdin"
      [] step = "flush" -> "lock_pending"
      [] step = "insert" -> "recv"

\* The order of lines 136-138: the insert into `pending`, then write_request,
\* then rx.await.
AfterStep(step) ==
    CASE step = "fetch_add" -> "lock_pending"
      [] step = "insert" -> "lock_stdin"
      [] step = "flush" -> "recv"

\* A guard of `pending` kept in a local until analyze returns.
analyze_insert_keeps_guard(c) ==
    /\ pc[c] = "insert"
    /\ pending' = {e \in pending : e.id # call_id[c]}
                      \cup {[id |-> call_id[c], tx |-> <<c, call_no[c]>>]}
    /\ pc' = [pc EXCEPT ![c] = "lock_stdin"]
    /\ UNCHANGED <<next_id, started_at, pending_lock, stdin_lock, stdin_bytes,
                   call_no, call_id, rx, result, engine, stdout, n_out,
                   reader_pc, cur, waiting_at_end, dropped>>
    /\ UNCHANGED <<sched_vars, rest_vars>>

\* line 124 and 135: the id is taken and the oneshot channel is made.
analyze_fetch_add(c) ==
    /\ pc[c] = "idle"
    /\ ~dropped
    /\ CallsStarted < MaxCalls
    /\ InOrder(c)
    /\ result' = [result EXCEPT ![c] = NoResult]
    /\ call_id' = [call_id EXCEPT ![c] = to_string(next_id)]
    /\ next_id' = WrappingInc(next_id)
    /\ call_no' = [call_no EXCEPT ![c] = @ + 1]
    /\ rx' = [rx EXCEPT ![c] = [st |-> "empty", resp |-> NoId]]
    /\ pc' = [pc EXCEPT ![c] = AfterStep("fetch_add")]
    /\ UNCHANGED <<started_at, pending, pending_lock, stdin_lock, stdin_bytes,
                   engine, stdout, n_out, reader_pc, cur, waiting_at_end,
                   dropped>>
    /\ UNCHANGED <<sched_vars, rest_vars>>

\* line 136: self.pending.lock().await
analyze_lock_pending(c) ==
    /\ pc[c] = "lock_pending"
    /\ pending_lock = Free
    /\ pending_lock' = Task(c)
    /\ pc' = [pc EXCEPT ![c] = "insert"]
    /\ UNCHANGED <<next_id, started_at, pending, stdin_lock, stdin_bytes,
                   call_no, call_id, rx, result, engine, stdout, n_out,
                   reader_pc, cur, waiting_at_end, dropped>>
    /\ UNCHANGED <<sched_vars, rest_vars>>

\* line 136: .insert(id.clone(), tx); the guard is dropped with the statement.
analyze_insert(c) ==
    /\ pc[c] = "insert"
    /\ pending' = insert(pending, call_id[c], <<c, call_no[c]>>)
    /\ rx' = DropSenders({e.tx : e \in remove(pending, call_id[c])})
    /\ pending_lock' = Free
    /\ pc' = [pc EXCEPT ![c] = AfterStep("insert")]
    /\ UNCHANGED <<next_id, started_at, stdin_lock, stdin_bytes, call_no,
                   call_id, result, engine, stdout, n_out, reader_pc, cur,
                   waiting_at_end, dropped>>
    /\ UNCHANGED <<sched_vars, rest_vars>>

\* write_request that goes on to write without waiting for the stdin Mutex.
write_request_no_lock(c) ==
    /\ pc[c] = "lock_stdin"
    /\ stdin_lock' = Task(c)
    /\ pc' = [pc EXCEPT ![c] = "write_body"]
    /\ UNCHANGED <<next_id, started_at, pending, pending_lock, stdin_bytes,
                   call_no, call_id, rx, result, engine, stdout, n_out,
                   reader_pc, cur, waiting_at_end, dropped>>
    /\ UNCHANGED <<sched_vars, rest_vars>>

\* line 144: self.stdin.lock().await
write_request_lock(c) ==
    /\ pc[c] = "lock_stdin"
    /\ stdin_lock = Free
    /\ stdin_lock' = Task(c)
    /\ pc' = [pc EXCEPT ![c] = "write_body"]
    /\ UNCHANGED <<next_id, started_at, pending, pending_lock, stdin_bytes,
                   call_no, call_id, rx, result, engine, stdout, n_out,
                   reader_pc, cur, waiting_at_end, dropped>>
    /\ UNCHANGED <<sched_vars, rest_vars>>

\* The `?` of lines 145-147 and 137: the guard and the receiver are dropped
\* and analyze returns the io error; the entry stays in `pending`.
WriteFailed(c) ==
    /\ stdin_lock' = Free
    /\ pc' = [pc EXCEPT ![c] = "idle"]
    /\ rx' = [rx EXCEPT ![c] = NoRx]
    /\ result' = [result EXCEPT ![c] = Result(c, "io_error", NoId)]
    /\ UNCHANGED stdin_bytes

\* line 145: stdin.write_all(line.as_bytes()).await?
write_request_body(c) ==
    /\ pc[c] = "write_body"
    /\ IF WriteOk
       THEN /\ stdin_bytes' = Append(stdin_bytes, Body(call_id[c]))
            /\ pc' = [pc EXCEPT ![c] = "write_newline"]
            /\ UNCHANGED <<stdin_lock, rx, result>>
       ELSE WriteFailed(c)
    /\ UNCHANGED <<next_id, started_at, pending, pending_lock, call_no,
                   call_id, engine, stdout, n_out, reader_pc, cur,
                   waiting_at_end, dropped>>
    /\ UNCHANGED <<sched_vars, rest_vars>>

\* line 146: stdin.write_all(b"\n").await?
write_request_newline(c) ==
    /\ pc[c] = "write_newline"
    /\ IF WriteOk
       THEN /\ stdin_bytes' = Append(stdin_bytes, Newline)
            /\ pc' = [pc EXCEPT ![c] = "flush"]
            /\ UNCHANGED <<stdin_lock, rx, result>>
       ELSE WriteFailed(c)
    /\ UNCHANGED <<next_id, started_at, pending, pending_lock, call_no,
                   call_id, engine, stdout, n_out, reader_pc, cur,
                   waiting_at_end, dropped>>
    /\ UNCHANGED <<sched_vars, rest_vars>>

\* A write_request that returns without dropping the guard of stdin.
write_request_flush_keeps_guard(c) ==
    /\ pc[c] = "flush"
    /\ pc' = [pc EXCEPT ![c] = "recv"]
    /\ UNCHANGED <<next_id, started_at, pending, pending_lock, stdin_lock,
                   stdin_bytes, call_no, call_id, rx, result, engine, stdout,
                   n_out, reader_pc, cur, waiting_at_end, dropped>>
    /\ UNCHANGED <<sched_vars, rest_vars>>

\* lines 147-148: flush (ChildStdin has nothing to flush and returns Ok), the
\* guard is dropped on return and analyze goes on to rx.await.
write_request_flush(c) ==
    /\ pc[c] = "flush"
    /\ stdin_lock' = Free
    /\ pc' = [pc EXCEPT ![c] = AfterStep("flush")]
    /\ UNCHANGED <<next_id, started_at, pending, pending_lock, stdin_bytes,
                   call_no, call_id, rx, result, engine, stdout, n_out,
                   reader_pc, cur, waiting_at_end, dropped>>
    /\ UNCHANGED <<sched_vars, rest_vars>>

\* lines 138-139: rx.await resolves once a value was sent or the sender dropped.
analyze_recv(c) ==
    /\ pc[c] = "recv"
    /\ rx[c].st \in {"value", "closed"}
    /\ result' = [result EXCEPT ![c] =
          IF rx[c].st = "value" THEN Result(c, "ok", rx[c].resp)
          ELSE Result(c, "unavailable", NoId)]
    /\ rx' = [rx EXCEPT ![c] = NoRx]
    /\ pc' = [pc EXCEPT ![c] = "idle"]
    /\ UNCHANGED <<next_id, started_at, pending, pending_lock, stdin_lock,
                   stdin_bytes, call_no, call_id, engine, stdout, n_out,
                   reader_pc, cur, waiting_at_end, dropped>>
    /\ UNCHANGED <<sched_vars, rest_vars>>

\* ------------------------------------------------------------ the engine
Emit(line) ==
    /\ engine = "running"
    /\ n_out < MaxOut
    /\ stdout' = Append(stdout, line)
    /\ n_out' = n_out + 1
    /\ UNCHANGED <<next_id, started_at, pending, pending_lock, stdin_lock,
                   stdin_bytes, pc, call_no, call_id, rx, result, engine,
                   reader_pc, cur, waiting_at_end, dropped>>
    /\ UNCHANGED <<sched_vars, rest_vars>>

\* A response line echoing the id of a request line the engine has received
\* (in any order, possibly more than once) or an id nobody issued.
engine_reply(id) == Emit([k |-> "resp", id |-> id])

\* A line that is no AnalysisResponse (a diagnostic).
engine_noise == Emit([k |-> "noise", id |-> NoId])

\* A line that is not valid UTF-8: next_line returns Err for it.
engine_invalid == Emit([k |-> "invalid", id |-> NoId])

\* The process exits: its stdin is closed at once, what it wrote to stdout is
\* still read before the reader sees the end of the stream.
engine_exit ==
    /\ engine = "running"
    /\ engine' = "exited"
    /\ UNCHANGED <<next_id, started_at, pending, pending_lock, stdin_lock,
                   stdin_bytes, pc, call_no, call_id, rx, result, stdout,
                   n_out, reader_pc, cur, waiting_at_end, dropped>>
    /\ UNCHANGED <<sched_vars, rest_vars>>

\* ------------------------------------------------- KataGo::spawn_reader
Waiting == {<<c, call_no[c]>> : c \in {d \in Callers :
                pc[d] = "recv" /\ rx[d].st = "empty"}}

\* lines 155-156: next_line yields a line that parses as an AnalysisResponse.
spawn_reader_response ==
    /\ reader_pc = "read"
    /\ stdout # <<>>
    /\ Head(stdout).k = "resp"
    /\ cur' = Head(stdout)
    /\ stdout' = Tail(stdout)
    /\ reader_pc' = "lock_remove"
    /\ UNCHANGED <<next_id, started_at, pending, pending_lock, stdin_lock,
                   stdin_bytes, pc, call_no, call_id, rx, result, engine,
                   n_out, waiting_at_end, dropped>>
    /\ UNCHANGED <<sched_vars, rest_vars>>

\* A reader that leaves its loop on a line that does not parse.
spawn_reader_noise_ends_loop ==
    /\ reader_pc = "read"
    /\ stdout # <<>>
    /\ Head(stdout).k = "noise"
    /\ cur' = Head(stdout)
    /\ stdout' = Tail(stdout)
    /\ reader_pc' = "lock_drain"
    /\ waiting_at_end' = Waiting
    /\ UNCHANGED <<next_id, started_at, pending, pending_lock, stdin_lock,
                   stdin_bytes, pc, call_no, call_id, rx, result, engine,
                   n_out, dropped>>
    /\ UNCHANGED <<sched_vars, rest_vars>>

\* lines 155-156: serde_json::from_str fails, the loop goes to the next line.
spawn_reader_noise ==
    /\ reader_pc = "read"
    /\ stdout # <<>>
    /\ Head(stdout).k = "noise"
    /\ cur' = Head(stdout)
    /\ stdout' = Tail(stdout)
    /\ UNCHANGED <<next_id, started_at, pending, pending_lock, stdin_lock,
                   stdin_bytes, pc, call_no, call_id, rx, result, engine,
                   n_out, reader_pc, waiting_at_end, dropped>>
    /\ UNCHANGED <<sched_vars, rest_vars>>

\* line 155: next_line returns Err, `while let Ok(Some(..))` ends the loop.
spawn_reader_read_error ==
    /\ reader_pc = "read"
    /\ stdout # <<>>
    /\ Head(stdout).k = "invalid"
    /\ cur' = Head(stdout)
    /\ stdout' = Tail(stdout)
    /\ reader_pc' = "lock_drain"
    /\ waiting_at_end' = Waiting
    /\ UNCHANGED <<next_id, started_at, pending, pending_lock, stdin_lock,
                   stdin_bytes, pc, call_no, call_id, rx, result, engine,
                   n_out, dropped>>
    /\ UNCHANGED <<sched_vars, rest_vars>>

\* line 155: next_line returns Ok(None), the stream is closed.
spawn_reader_eof ==
    /\ reader_pc = "read"
    /\ stdout = <<>>
    /\ engine = "exited"
    /\ reader_pc' = "lock_drain"
    /\ waiting_at_end' = Waiting
    /\ UNCHANGED <<next_id, started_at, pending, pending_lock, stdin_lock,
                   stdin_bytes, pc, call_no, call_id, rx, result, engine,
                   stdout, n_out, cur, dropped>>
    /\ UNCHANGED <<sched_vars, rest_vars>>

\* lines 158 and 164: wrapper.pending.lock().await
spawn_reader_lock ==
    /\ reader_pc \in {"lock_remove", "lock_drain"}
    /\ pending_lock = Free
    /\ pending_lock' = ReaderTask
    /\ reader_pc' = IF reader_pc = "lock_remove" THEN "remove" ELSE "drain"
    /\ UNCHANGED <<next_id, started_at, pending, stdin_lock, stdin_bytes, pc,
                   call_no, call_id, rx, result, engine, stdout, n_out, cur,
                   waiting_at_end, dropped>>
    /\ UNCHANGED <<sched_vars, rest_vars>>

\* lines 158-160: remove(&id), and tx.send(resp) if there was an entry.
spawn_reader_remove ==
    /\ reader_pc = "remove"
    /\ pending' = pending \ remove(pending, cur.id)
    /\ rx' = Send({e.tx : e \in remove(pending, cur.id)}, cur.id)
    /\ pending_lock' = Free
    /\ reader_pc' = "read"
    /\ UNCHANGED <<next_id, started_at, stdin_lock, stdin_bytes, pc, call_no,
                   call_id, result, engine, stdout, n_out, cur,
                   waiting_at_end, dropped>>
    /\ UNCHANGED <<sched_vars, rest_vars>>

\* A reader task that ends without draining `pending`.
spawn_reader_no_drain ==
    /\ reader_pc = "drain"
    /\ pending_lock' = Free
    /\ reader_pc' = "done"
    /\ UNCHANGED <<next_id, started_at, pending, stdin_lock, stdin_bytes, pc,
                   call_no, call_id, rx, result, engine, stdout, n_out, cur,
                   waiting_at_end, dropped>>
    /\ UNCHANGED <<sched_vars, rest_vars>>

\* lines 165-167: pending.drain() drops every sender; the task ends.
spawn_reader_drain ==
    /\ reader_pc = "drain"
    /\ pending' = {}
    /\ rx' = DropSenders({e.tx : e \in pending})
    /\ pending_lock' = Free
    /\ reader_pc' = "done"
    /\ UNCHANGED <<next_id, started_at, stdin_lock, stdin_bytes, pc, call_no,
                   call_id, result, engine, stdout, n_out, cur,
                   waiting_at_end, dropped>>
    /\ UNCHANGED <<sched_vars, rest_vars>>

\* -------------------------------------------------------- Drop for KataGo
\* lines 204-205: write_all and flush of AsyncWriteExt return futures; drop
\* is not async and lets them go unpolled, so no byte reaches the stream.
unpolled_write_all(stream, bytes) == stream

\* The last Arc goes when main has returned (no analyze call is left) and
\* the reader task has ended or is cancelled in next_line by the runtime.
drop ==
    /\ ~dropped
    /\ \A c \in Callers : pc[c] = "idle"
    /\ reader_pc \in {"read", "done"}
    /\ dropped' = TRUE
    /\ reader_pc' = IF reader_pc = "read" THEN "cancelled" ELSE reader_pc
    /\ stdin_bytes' = IF stdin_lock = Free
                      THEN unpolled_write_all(stdin_bytes, Newline)
                      ELSE stdin_bytes
    /\ UNCHANGED <<next_id, started_at, pending, pending_lock, stdin_lock, pc,
                   call_no, call_id, rx, result, engine, stdout, n_out, cur,
                   waiting_at_end>>
    /\ UNCHANGED <<sched_vars, rest_vars>>

\* --------------------------------------------------------- specification
Next ==
    \/ \E c \in Callers : analyze_fetch_add(c)
    \/ \E c \in Callers : analyze_lock_pending(c)
    \/ \E c \in Callers : analyze_insert(c)
    \/ \E c \in Callers : write_request_lock(c)
    \/ \E c \in Callers : write_request_body(c)
    \/ \E c \in Callers : write_request_newline(c)
    \/ \E c \in Callers : write_request_flush(c)
    \/ \E c \in Callers : analyze_recv(c)
    \/ \E id \in Received \cup StrayIds : engine_reply(id)
    \/ engine_noise
    \/ engine_invalid
    \/ engine_exit
    \/ spawn_reader_response
    \/ spawn_reader_noise
    \/ spawn_reader_read_error
    \/ spawn_reader_eof
    \/ spawn_reader_lock
    \/ spawn_reader_remove
    \/ spawn_reader_drain
    \/ drop

Spec == Init /\ [][Next]_vars

\* A task that can take a step of analyze is polled again, and so is the
\* reader task; nothing obliges a task to start a call or the engine to act.
CallerStep(c) ==
    \/ analyze_lock_pending(c)
    \/ analyze_insert(c)
    \/ write_request_lock(c)
    \/ write_request_body(c)
    \/ write_request_newline(c)
    \/ write_request_flush(c)
    \/ analyze_recv(c)

ReaderStep ==
    \/ spawn_reader_response
    \/ spawn_reader_noise
    \/ spawn_reader_read_error
    \/ spawn_reader_eof
    \/ spawn_reader_lock
    \/ spawn_reader_remove
    \/ spawn_reader_drain

FairSpec ==
    /\ Spec
    /\ \A c \in Callers : WF_vars(CallerStep(c))
    /\ WF_vars(ReaderStep)

\* The same client late in its life, where the counter wraps.
LateSpec == InitLate /\ [][Next]_vars

\* ----------------------------------------- the client with an engine that
\* answers every request line once and keeps its output open
\* The engine answers a request line it has received and not yet answered.
engine_answer(id) ==
    /\ engine = "running"
    /\ id \in Received \ replied
    /\ stdout' = Append(stdout, [k |-> "resp", id |-> id])
    /\ n_out' = n_out + 1
    /\ replied' = replied \cup {id}
    /\ UNCHANGED <<next_id, started_at, pending, pending_lock, stdin_lock,
                   stdin_bytes, pc, call_no, call_id, rx, result, engine,
                   reader_pc, cur, waiting_at_end, dropped>>
    /\ UNCHANGED <<sched_vars, pick_vars, game_vars, sgf_vars>>

\* The ids analyze can give in one behaviour of GoodSpec.
RECURSIVE IdsFrom(_, _)
IdsFrom(n, k) ==
    IF k = 0 THEN {} ELSE {to_string(n)} \cup IdsFrom(WrappingInc(n), k - 1)

GoodNext ==
    \/ \E c \in Callers : analyze_fetch_add(c)
    \/ \E c \in Callers : analyze_lock_pending(c)
    \/ \E c \in Callers : analyze_insert(c)
    \/ \E c \in Callers : write_request_lock(c)
    \/ \E c \in Callers : write_request_body(c)
    \/ \E c \in Callers : write_request_newline(c)
    \/ \E c \in Callers : write_request_flush(c)
    \/ \E c \in Callers : analyze_recv(c)
    \/ \E id \in IdsFrom(<<0, FirstId>>, MaxCalls) : engine_answer(id)
    \/ engine_noise
    \/ spawn_reader_response
    \/ spawn_reader_noise
    \/ spawn_reader_lock
    \/ spawn_reader_remove

\* Fair scheduling: a task that can take a step is polled again, and the
\* engine does answer a request it has received.
GoodSpec ==
    /\ Init
    /\ [][GoodNext]_vars
    /\ \A c \in Callers : WF_vars(CallerStep(c))
    /\ WF_vars(ReaderStep)
    /\ WF_vars(\E id \in IdsFrom(<<0, FirstId>>, MaxCalls) : engine_answer(id))

\* ------------------------------------------------------------------ main
\* The test of line 75 made one push too late.
AtCapLate(len) == len > cap

\* main.rs line 75: futures.len() == config.num_analysis_threads
AtCap(len) == len = cap

\* sgf::stones_to_sgf (sgf.rs line 69): an empty history is "bad board".
stones_to_sgf_ok(len) == len > 0

\* lines 70-75 and the end of the for loop: one more game is pushed into the
\* pool; when the pool is at the cap main goes on to await a result.
main_for ==
    /\ main_pc = "for"
    /\ IF started < playouts
       THEN /\ started' = started + 1
            /\ futures' = futures \cup {started + 1}
            /\ game' = Append(game, [st |-> "playing", len |-> first_len])
            /\ main_pc' = IF AtCap(Cardinality(futures \cup {started + 1}))
                           THEN "for_next" ELSE "for"
       ELSE /\ main_pc' = "while"
            /\ UNCHANGED <<started, futures, game>>
    /\ UNCHANGED <<cap, playouts, first_len, outputs>>
    /\ UNCHANGED <<client_vars, rest_vars>>

\* A future of the pool is polled only while main awaits futures.next().
Polled(g) ==
    /\ main_pc \in {"for_next", "while"}
    /\ g \in futures
    /\ game[g].st = "playing"

RunGame(g, st, len) ==
    /\ Polled(g)
    /\ game' = [game EXCEPT ![g] = [st |-> st, len |-> len]]
    /\ UNCHANGED <<cap, playouts, first_len, main_pc, started, futures,
                   outputs>>
    /\ UNCHANGED <<client_vars, rest_vars>>

\* katago.rs lines 177-196: analyze and pick_move give a move other than
\* "pass", which is pushed onto the history.
run_game_move(g) ==
    /\ game[g].len - first_len < MaxMoves
    /\ RunGame(g, "playing", game[g].len + 1)

\* katago.rs lines 179-180: pick_move gives "pass", run_game returns Ok(stones).
run_game_pass(g) == RunGame(g, "ok", game[g].len)

\* katago.rs line 177: analyze returns Err, run_game returns it.
run_game_unavailable(g) == RunGame(g, "unavailable", game[g].len)

\* katago.rs line 178: pick_move returns Err (no moves), run_game returns it.
run_game_no_moves(g) == RunGame(g, "no_moves", game[g].len)

\* main.rs lines 76 and 80, a game that returned Ok and converts: it leaves
\* the pool and is saved.
main_next_save(g) ==
    /\ main_pc \in {"for_next", "while"}
    /\ g \in futures
    /\ game[g].st = "ok"
    /\ stones_to_sgf_ok(game[g].len)
    /\ futures' = futures \ {g}
    /\ game' = [game EXCEPT ![g].st = "saved"]
    /\ outputs' = Append(outputs, g)
    /\ main_pc' = IF main_pc = "for_next" THEN "for" ELSE "while"
    /\ UNCHANGED <<cap, playouts, first_len, started>>
    /\ UNCHANGED <<client_vars, rest_vars>>

\* main.rs lines 76 and 80, the `?`s: the game returned Err, or its history
\* does not convert; main returns the error and the pool is dropped with
\* the games still in it.
main_next_err(g) ==
    /\ main_pc \in {"for_next", "while"}
    /\ g \in futures
    /\ \/ game[g].st \in {"unavailable", "no_moves"}
       \/ game[g].st = "ok" /\ ~stones_to_sgf_ok(game[g].len)
    /\ futures' = {}
    /\ game' = [h \in DOMAIN game |->
                 IF h \in futures /\ h # g
                 THEN [game[h] EXCEPT !.st = "dropped"]
                 ELSE IF h = g /\ game[g].st = "ok"
                      THEN [game[h] EXCEPT !.st = "bad_board"]
                      ELSE game[h]]
    /\ main_pc' = "failed"
    /\ UNCHANGED <<cap, playouts, first_len, started, outputs>>
    /\ UNCHANGED <<client_vars, rest_vars>>

\* main.rs lines 79 and 82: the pool is empty, main returns Ok.
main_while_end ==
    /\ main_pc = "while"
    /\ futures = {}
    /\ main_pc' = "done"
    /\ UNCHANGED <<cap, playouts, first_len, started, futures, game, outputs>>
    /\ UNCHANGED <<client_vars, rest_vars>>

SchedInit ==
    /\ InitAt(<<0, FirstId>>)
    /\ RestIdle
    /\ cap \in 0..MaxCap
    /\ playouts \in -1..MaxGames
    /\ first_len \in {0, 1}
    /\ main_pc = "for"
    /\ started = 0
    /\ futures = {}
    /\ game = <<>>
    /\ outputs = <<>>

SchedNext ==
    \/ main_for
    \/ \E g \in futures : run_game_move(g)
    \/ \E g \in futures : run_game_pass(g)
    \/ \E g \in futures : run_game_unavailable(g)
    \/ \E g \in futures : run_game_no_moves(g)
    \/ \E g \in futures : main_next_save(g)
    \/ \E g \in futures : main_next_err(g)
    \/ main_while_end

SchedSpec == SchedInit /\ [][SchedNext]_vars

\* ------------------------------------------------------------- pick_move
MaxMoveInfos == 2    \* longest list of evaluations given to pick_move

\* The f32 fields are kept as integers on a grid fine enough for what
\* pick_move does with them: utility in 1/UtilUnit, score_lead in 1/LeadUnit.
UtilUnit == 10000
LeadUnit == 10
KeyScale == 1000     \* line 60: m.utility * 1000.0
SampleTries == 10    \* line 72: for _ in 0..10
ExpZeroAt == -104    \* f32: exp(x) is 0.0 for every x <= -104

\* line 74: 0.5, in 1/LeadUnit.
Cutoff == LeadUnit \div 2

\* The evaluations pick_move is tried on.  Utilities: -210.0 (its weight
\* underflows), 0.0, 0.0004 (the same key as 0.0) and 1.0.  Score leads: 0.0,
\* 0.4 and 0.5.
Movs == {"pass", "D4", "Q16"}
Utilities == {-2100000, 0, 4, UtilUnit}
ScoreLeads == {0, 4, 5}

MoveInfo == [mov : Movs, utility : Utilities, score_lead : ScoreLeads]

MoveLists == UNION {[1..n -> MoveInfo] : n \in 0..MaxMoveInfos}

\* f32::round of num / den (den > 0): to the nearest, halves away from zero.
round(num, den) ==
    IF num >= 0 THEN (num + den \div 2) \div den
    ELSE -((-num + den \div 2) \div den)

\* line 60: (m.utility * 1000.0).round() as i64
Key(m) == round(m.utility * KeyScale, UtilUnit)

\* lines 58-61: max_by_key gives the last of the elements of maximal key.
best_move ==
    CHOOSE i \in DOMAIN moves :
        \A j \in DOMAIN moves :
            \/ Key(moves[j]) < Key(moves[i])
            \/ Key(moves[j]) = Key(moves[i]) /\ j <= i

\* exp of the whole utility rather than of its half.
ExpArgWhole(mv) == [num |-> 2 * mv.utility, den |-> 2 * UtilUnit]

\* line 68: mv.utility * 0.5, the argument of exp, as a fraction.
ExpArg(mv) == [num |-> mv.utility, den |-> 2 * UtilUnit]

\* line 68: the weight exp(arg) is 0.0 where exp underflows, positive elsewhere.
IsZero(arg) == arg.num <= ExpZeroAt * arg.den

\* The indices WeightedIndex::sample can give: those of non-zero weight.
Support == {i \in DOMAIN moves : ~IsZero(ExpArg(moves[i]))}

\* line 74: the test a sampled move has to pass.
Accepted(i) ==
    /\ moves[best_move].score_lead - moves[i].score_lead < Cutoff
    /\ moves[i].mov # "pass"

Return(kind, i) ==
    /\ picked' = [kind |-> kind, idx |-> i]
    /\ pm_pc' = "returned"

\* line 61: ok_or_else on an empty list.
pick_move_no_moves ==
    /\ pm_pc = "call"
    /\ moves = <<>>
    /\ Return("no_moves", 0)
    /\ UNCHANGED <<moves, tries, choice>>
    /\ UNCHANGED <<client_vars, sched_vars, game_vars, sgf_vars, replied>>

\* lines 63-65: the best move is "pass".
pick_move_pass ==
    /\ pm_pc = "call"
    /\ moves # <<>>
    /\ moves[best_move].mov = "pass"
    /\ Return("ok", best_move)
    /\ UNCHANGED <<moves, tries, choice>>
    /\ UNCHANGED <<client_vars, sched_vars, game_vars, sgf_vars, replied>>

\* line 68: WeightedIndex::new(..)? fails when every weight is 0.0.
pick_move_bad_weights ==
    /\ pm_pc = "call"
    /\ moves # <<>>
    /\ moves[best_move].mov # "pass"
    /\ Support = {}
    /\ Return("bad_weights", 0)
    /\ UNCHANGED <<moves, tries, choice>>
    /\ UNCHANGED <<client_vars, sched_vars, game_vars, sgf_vars, replied>>

\* lines 67-70: the distribution is built and the loop of line 72 entered.
pick_move_new_dist ==
    /\ pm_pc = "call"
    /\ moves # <<>>
    /\ moves[best_move].mov # "pass"
    /\ Support # {}
    /\ pm_pc' = "sample"
    /\ UNCHANGED <<moves, tries, choice, picked>>
    /\ UNCHANGED <<client_vars, sched_vars, game_vars, sgf_vars, replied>>

\* lines 72-77: one iteration: a move is sampled and returned if it passes.
pick_move_sample ==
    /\ pm_pc = "sample"
    /\ tries < SampleTries
    /\ \E i \in Support :
        /\ choice' = i
        /\ tries' = tries + 1
        /\ IF Accepted(i) THEN Return("ok", i)
           ELSE UNCHANGED <<pm_pc, picked>>
    /\ UNCHANGED moves
    /\ UNCHANGED <<client_vars, sched_vars, game_vars, sgf_vars, replied>>

\* line 78: no iteration returned.
pick_move_fallback ==
    /\ pm_pc = "sample"
    /\ tries = SampleTries
    /\ Return("ok", best_move)
    /\ UNCHANGED <<moves, tries, choice>>
    /\ UNCHANGED <<client_vars, sched_vars, game_vars, sgf_vars, replied>>

PickInit ==
    /\ InitAt(<<0, FirstId>>)
    /\ SchedIdle
    /\ GameIdle
    /\ SgfIdle
    /\ replied = {}
    /\ moves \in MoveLists
    /\ pm_pc = "call"
    /\ tries = 0
    /\ choice = 0
    /\ picked = [kind |-> "none", idx |-> 0]

PickNext ==
    \/ pick_move_no_moves
    \/ pick_move_pass
    \/ pick_move_bad_weights
    \/ pick_move_new_dist
    \/ pick_move_sample
    \/ pick_move_fallback

PickSpec == PickInit /\ [][PickNext]_vars

\* --------------------------------------------------------------- run_game
MaxPlies == 2        \* moves other than "pass" the engine's replies lead to

Players == {"B", "W"}

\* What one analyze call gives run_game: root_info.current_player and the
\* move pick_move selects from move_infos.
Replies == [current_player : Players, mov : {"D4", "Q16"}]

PassReplies == [current_player : Players, mov : {"pass"}]

\* The replies of a game: moves other than "pass", then a "pass".
Scripts ==
    UNION {{Append(s, p) : s \in [1..n -> Replies], p \in PassReplies} :
              n \in 0..MaxPlies}

NoReply == [current_player |-> "none", mov |-> "none"]

\* A return that pushes the "pass" onto the history as well.
ReturnedWithPass(history, reply) ==
    Append(history, <<reply.current_player, reply.mov>>)

\* lines 179-181: return Ok(stones), the "pass" is not pushed.
Returned(history, reply) == history

\* line 177: self.analyze(stones.clone()).await
game_analyze ==
    /\ rg_pc = "analyze"
    /\ requests' = Append(requests, stones)
    /\ analysis_result' = script[Len(requests) + 1]
    /\ rg_pc' = "pick"
    /\ UNCHANGED <<initial_stones, script, stones, rg_result>>
    /\ UNCHANGED <<client_vars, sched_vars, pick_vars, sgf_vars, replied>>

\* lines 178-181: the move selected is "pass".
game_return ==
    /\ rg_pc = "pick"
    /\ analysis_result.mov = "pass"
    /\ rg_result' = Returned(stones, analysis_result)
    /\ rg_pc' = "returned"
    /\ UNCHANGED <<initial_stones, script, stones, requests, analysis_result>>
    /\ UNCHANGED <<client_vars, sched_vars, pick_vars, sgf_vars, replied>>

\* lines 178 and 182-196: another move is selected and pushed.
game_push ==
    /\ rg_pc = "pick"
    /\ analysis_result.mov # "pass"
    /\ stones' = Append(stones, <<analysis_result.current_player,
                                  analysis_result.mov>>)
    /\ rg_pc' = "analyze"
    /\ UNCHANGED <<initial_stones, script, requests, analysis_result,
                   rg_result>>
    /\ UNCHANGED <<client_vars, sched_vars, pick_vars, sgf_vars, replied>>

GameInit ==
    /\ InitAt(<<0, FirstId>>)
    /\ SchedIdle
    /\ PickIdle
    /\ SgfIdle
    /\ replied = {}
    /\ initial_stones \in {<<>>, <<<<"B", "Q4">>>>}
    /\ script \in Scripts
    /\ stones = initial_stones
    /\ requests = <<>>
    /\ analysis_result = NoReply
    /\ rg_pc = "analyze"
    /\ rg_result = <<>>

GameNext ==
    \/ game_analyze
    \/ game_return
    \/ game_push

GameSpec == GameInit /\ [][GameNext]_vars

\* ------------------------------------------------- sgf.rs: moves as text
BoardSize == 19      \* the points of the test: 0 <= x, y < 19
U8Max == 255         \* point.x, point.y and the parsed number are u8

\* lines 14 and 27: "ABCDEFGHJKLMNOPQRST", a string being its characters.
rank == <<"A", "B", "C", "D", "E", "F", "G", "H", "J", "K", "L", "M", "N",
          "O", "P", "Q", "R", "S", "T">>

DecimalChars == <<"0", "1", "2", "3", "4", "5", "6", "7", "8", "9">>

PassString == <<"p", "a", "s", "s">>

\* sgf_parse::go::Move
Pass == [kind |-> "pass", x |-> 0, y |-> 0]
Move(x, y) == [kind |-> "move", x |-> x, y |-> y]

\* What a call that panics (an unwrap of None or Err) leaves.
Panic == [kind |-> "panic", x |-> 0, y |-> 0]

\* u8::to_string
u8_to_string(n) ==
    LET d == to_string(<<0, n>>)
    IN  [i \in 1..Len(d) |-> DecimalChars[d[i] + 1]]

\* str::parse::<u8>: the number the digits spell, -1 for Err (no digit, a
\* character that is no digit, a number above u8::MAX).
RECURSIVE parse(_)
parse(str) ==
    IF str = <<>> \/ \E i \in DOMAIN str :
                        \A d \in DOMAIN DecimalChars : DecimalChars[d] # str[i]
    THEN -1
    ELSE LET last == (CHOOSE d \in DOMAIN DecimalChars :
                          DecimalChars[d] = str[Len(str)]) - 1
             front == SubSeq(str, 1, Len(str) - 1)
             high == IF front = <<>> THEN 0 ELSE parse(front)
         IN  IF high < 0 \/ high * 10 + last > U8Max THEN -1
             ELSE high * 10 + last

\* lines 13-21
move_to_string(mv) ==
    IF mv.kind = "pass" THEN PassString
    ELSE <<rank[mv.x + 1]>> \o u8_to_string(mv.y + 1)

\* string_to_move that takes the number after the letter for y itself.
string_to_move_no_offset(mv) ==
    IF mv = PassString THEN Pass
    ELSE Move((CHOOSE i \in DOMAIN rank : rank[i] = mv[1]) - 1, parse(Tail(mv)))

\* lines 23-32: position(..).unwrap() and parse::<u8>().unwrap() - 1.
string_to_move(mv) ==
    IF mv = PassString THEN Pass
    ELSE IF \A i \in DOMAIN rank : rank[i] # mv[1] THEN Panic
    ELSE IF parse(Tail(mv)) < 1 THEN Panic
    ELSE Move((CHOOSE i \in DOMAIN rank : rank[i] = mv[1]) - 1,
              parse(Tail(mv)) - 1)

NoString == <<>>

\* The moves of the test of lines 98-106, and the pass.
SgfMoves ==
    {Pass} \cup {Move(x, y) : x \in 0..(BoardSize - 1), y \in 0..(BoardSize - 1)}

sgf_encode ==
    /\ sgf_pc = "encode"
    /\ sgf_str' = move_to_string(sgf_mv)
    /\ sgf_pc' = "decode"
    /\ UNCHANGED <<sgf_mv, sgf_back>>
    /\ UNCHANGED <<client_vars, sched_vars, pick_vars, game_vars, replied>>

sgf_decode ==
    /\ sgf_pc = "decode"
    /\ sgf_back' = string_to_move(sgf_str)
    /\ sgf_pc' = "done"
    /\ UNCHANGED <<sgf_mv, sgf_str>>
    /\ UNCHANGED <<client_vars, sched_vars, pick_vars, game_vars, replied>>

SgfInit ==
    /\ InitAt(<<0, FirstId>>)
    /\ SchedIdle
    /\ PickIdle
    /\ GameIdle
    /\ replied = {}
    /\ sgf_mv \in SgfMoves
    /\ sgf_str = NoString
    /\ sgf_back = Panic
    /\ sgf_pc = "encode"

SgfNext ==
    \/ sgf_encode
    \/ sgf_decode

SgfSpec == SgfInit /\ [][SgfNext]_vars

\* ---------------------------------------------------------------- claims
\* C1: an analyze call that returns Ok returns the response whose id is the
\* id the call issued, whatever the number of outstanding calls and the
\* order of the engine's replies; a receiver never holds a response that
\* carries another call's id.
C1_ResponseMatchesRequest ==
    \A c \in Callers :
        /\ result[c].kind = "ok" => result[c].resp = result[c].id
        /\ rx[c].st = "value" => rx[c].resp = call_id[c]

\* Two calls were outstanding together, the engine answered the later one
\* first, and both returned Ok.
C1_Witness ==
    /\ \A c \in {1, 2} : result[c].kind = "ok" /\ result[c].call = 1
    /\ cur.id = result[1].id
    /\ n_out = 2

\* C2: the calls that were waiting for a response when the reader's loop
\* ended are all failed by the drain: once the reader task is done, each of
\* them has returned the "process ended" error, or its receiver is resolved
\* to that error and the call can take its step out of rx.await (it is not
\* blocked).
C2_WaitersAllFailed ==
    reader_pc = "done" =>
        \A w \in waiting_at_end :
            call_no[w[1]] = w[2] =>
                \/ /\ pc[w[1]] = "recv"
                   /\ rx[w[1]].st = "closed"
                   /\ ENABLED analyze_recv(w[1])
                \/ /\ pc[w[1]] = "idle"
                   /\ result[w[1]].kind = "unavailable"
                   /\ result[w[1]].call = w[2]

\* The liveness half of C2 under FairSpec: a call that was waiting when the
\* loop ended does return the error.
WaitedAtEnd(c) ==
    /\ reader_pc \in {"lock_drain", "drain", "done"}
    /\ <<c, call_no[c]>> \in waiting_at_end
    /\ pc[c] = "recv"

WaitersReturn ==
    \A c \in Callers :
        WaitedAtEnd(c) ~> (pc[c] = "idle" /\ result[c].kind = "unavailable")

\* The stream closed with two calls waiting and both returned the error.
C2_Witness ==
    /\ reader_pc = "done"
    /\ engine = "exited"
    /\ cur.k # "invalid"
    /\ Cardinality(waiting_at_end) = 2
    /\ \A w \in waiting_at_end :
           result[w[1]].kind = "unavailable" /\ result[w[1]].call = w[2]

\* C3: once the engine has exited and the reader task has ended, no analyze
\* call is suspended on a receiver that nothing will resolve.  (The reader
\* was the only task that sends on or drops a sender of `pending`, so a call
\* in that state never returns.)
C3_NoCallHangsAfterExit ==
    (engine = "exited" /\ reader_pc = "done") =>
        \A c \in Callers : pc[c] = "recv" => rx[c].st # "empty"

\* The ids handed out before this step: 1 .. started_at - 1 in the calls made
\* before the behaviour starts, and the ids from started_at on since.
WasIssued(v) ==
    \/ U32Less(<<0, 0>>, v) /\ U32Less(v, started_at)
    \/ IF U32Less(next_id, started_at)
       THEN ~U32Less(v, started_at) \/ U32Less(v, next_id)
       ELSE ~U32Less(v, started_at) /\ U32Less(v, next_id)

\* C4: every fetch_add increases the counter and hands out an id that was
\* never handed out before.
C4_IdsNeverReissued ==
    [][next_id' # next_id =>
          U32Less(next_id, next_id') /\ ~WasIssued(next_id)]_vars

AtMostOneEntryPerId ==
    \A e, f \in pending : e.id = f.id => e = f

\* C5: the table holds at most one entry per id, and when an analyze call
\* has returned the table holds no entry that the call registered.
C5_EntryGoneOnReturn ==
    /\ AtMostOneEntryPerId
    /\ \A c \in Callers :
           pc[c] = "idle" => \A e \in pending : e.tx # <<c, call_no[c]>>

\* The reader takes a line that does not parse.
NoiseStep ==
    /\ reader_pc = "read"
    /\ stdout # <<>>
    /\ Head(stdout).k = "noise"
    /\ stdout' = Tail(stdout)

\* The reader looks up a response whose id has no entry.
UnknownIdStep ==
    /\ reader_pc = "remove"
    /\ reader_pc' # "remove"
    /\ \A e \in pending : e.id # cur.id

C7_PoolWithinCap ==
    cap >= 1 => Cardinality(futures) <= cap

\* More games than the cap are asked for and the pool is full.
C7_Witness ==
    /\ cap >= 2
    /\ playouts > cap
    /\ Cardinality(futures) = cap
    /\ main_pc = "for_next"
    /\ Len(outputs) >= 1

\* No history has failed to convert: what has failed, if anything, is a game
\* task (analyze or pick_move returned Err).
OnlyGamesFailed == \A g \in DOMAIN game : game[g].st # "bad_board"

\* C8: the failure of a game task aborts no other game of the pool, and main
\* still starts every game and takes every game's result out of the pool.
C8_FailureIsolated ==
    OnlyGamesFailed =>
        /\ \A g \in DOMAIN game : game[g].st # "dropped"
        /\ main_pc \in {"done", "failed"} =>
              /\ playouts > 0 => started = playouts
              /\ \A g \in DOMAIN game :
                     game[g].st \in {"saved", "unavailable", "no_moves"}

InWrite == {c \in Callers : pc[c] \in {"write_body", "write_newline", "flush"}}

\* Every request body on the stream is followed by its newline before any
\* other byte, a body at the very end excepted.
WholeLines ==
    \A i \in 1..Len(stdin_bytes) :
        IF stdin_bytes[i].t = "body"
        THEN i = Len(stdin_bytes) \/ stdin_bytes[i + 1].t = "nl"
        ELSE i > 1 /\ stdin_bytes[i - 1].t = "body"

\* C9: at most one call is inside the write sequence, and it holds the stdin
\* Mutex; the request lines on the stream are not interleaved; a call that
\* waits for its response does not hold the Mutex.
C9_WritesExclusive ==
    /\ Cardinality(InWrite) <= 1
    /\ \A c \in InWrite : stdin_lock = Task(c)
    /\ WholeLines
    /\ \A c \in Callers : pc[c] = "recv" => stdin_lock # Task(c)

\* One call is between its body and its newline, holding the Mutex, while
\* another call waits for the Mutex.
C9_Witness ==
    \E c, d \in Callers :
        /\ pc[c] = "write_newline"
        /\ stdin_lock = Task(c)
        /\ pc[d] = "lock_stdin"
        /\ stdin_bytes = <<Body(call_id[c])>>

\* C10: when the client is dropped with the stdin Mutex free and the engine
\* running, a newline is written to the engine's stdin.
C10_StopSignalWritten ==
    [][(~dropped /\ dropped' /\ stdin_lock = Free /\ engine = "running") =>
          stdin_bytes' = Append(stdin_bytes, Newline)]_vars

\* --------------------------------------------------- claims on pick_move
\* The move at index i is "pass" and its utility is above that of every
\* other move of the list.
PassHasMaxUtility(i) ==
    /\ moves[i].mov = "pass"
    /\ \A j \in DOMAIN moves \ {i} : moves[j].utility < moves[i].utility

\* C11: when the move of maximal utility of a non-empty list is "pass",
\* pick_move returns a "pass", and does so without sampling.
C11_MaxUtilityPassReturned ==
    \A i \in DOMAIN moves :
        PassHasMaxUtility(i) /\ pm_pc = "returned"
            => /\ picked.kind = "ok"
               /\ moves[picked.idx].mov = "pass"
               /\ tries = 0

\* C12: pick_move fails with the no-moves error on the empty list, and on
\* every non-empty list it returns, without failing, an element of the list.
C12_FailsOnlyOnEmptyList ==
    pm_pc = "returned" =>
        IF moves = <<>> THEN picked.kind = "no_moves"
        ELSE picked.kind = "ok" /\ picked.idx \in DOMAIN moves

\* The move at index i is not "pass" and its utility is above that of every
\* other move of the list.
MoveHasMaxUtility(i) ==
    /\ moves[i].mov # "pass"
    /\ \A j \in DOMAIN moves \ {i} : moves[j].utility < moves[i].utility

\* C13: when the move of maximal utility is not "pass", the move returned is
\* never "pass" and is that move or one whose score lead is less than the
\* cutoff below that move's.
C13_ReturnedWithinCutoff ==
    \A i \in DOMAIN moves :
        MoveHasMaxUtility(i) /\ pm_pc = "returned" /\ picked.kind = "ok"
            => /\ moves[picked.idx].mov # "pass"
               /\ \/ picked.idx = i
                  \/ moves[i].score_lead - moves[picked.idx].score_lead < Cutoff

\* The candidate set: the moves that are not "pass" and pass the cutoff.
Candidates == {i \in DOMAIN moves : Accepted(i)}

\* pick_move has built its distribution and gone into the loop of line 72.
Sampling ==
    /\ moves # <<>>
    /\ moves[best_move].mov # "pass"
    /\ Support # {}
    /\ pm_pc = "sample" \/ (pm_pc = "returned" /\ picked.kind = "ok")

\* The gap candidate.utility - best.utility, in 1/UtilUnit.
UtilityGap(i) == moves[i].utility - moves[best_move].utility

HistoryAfter(k) ==
    initial_stones \o
        [j \in 1..k |-> <<script[j].current_player, script[j].mov>>]

\* C15: when the replies lead to n moves other than "pass" and then to a
\* "pass", run_game makes exactly n + 1 analyze calls, the k-th with the
\* initial history followed by the first k - 1 selected moves, and returns
\* the initial history followed by the n moves, the "pass" not among them.
C15_GamePlaysScriptThenReturns ==
    LET n == Len(script) - 1
    IN  /\ Len(requests) <= n + 1
        /\ \A k \in 1..Len(requests) : requests[k] = HistoryAfter(k - 1)
        /\ rg_pc = "returned" /\ script # <<>>
              => /\ Len(requests) = n + 1
                 /\ rg_result = HistoryAfter(n)
                 /\ Len(rg_result) = Len(initial_stones) + n

\* A game with an initial history has played the moves of both players and
\* returned on the "pass".
C15_Witness ==
    /\ rg_pc = "returned"
    /\ initial_stones # <<>>
    /\ Len(script) = MaxPlies + 1
    /\ script[1].current_player # script[2].current_player
    /\ Len(requests) = Len(script)
    /\ rg_result = stones

\* ------------------------------------------- claims on the sgf conversions
\* C16: string_to_move(move_to_string(m)) = m for the move m at every point
\* (x, y) with 0 <= x, y < 19; the pass encodes to "pass" and "pass" decodes
\* to the pass.
C16_MoveStringRoundTrip ==
    /\ sgf_pc = "done" => sgf_back = sgf_mv
    /\ sgf_pc # "encode" /\ sgf_mv = Pass => sgf_str = PassString
    /\ string_to_move(PassString) = Pass

\* The point of the last column and row went through "T19", the point
\* after the skipped letter through "J1".
C16_Witness ==
    /\ sgf_pc = "done"
    /\ \/ sgf_mv = Move(BoardSize - 1, BoardSize - 1)
          /\ sgf_str = <<"T", "1", "9">>
       \/ sgf_mv = Move(8, 0) /\ sgf_str = <<"J", "1">>
    /\ sgf_back = sgf_mv

\* ---------------------------------------------- claims on main (continued)
\* No game task has returned Err.
NoGameFailed ==
    \A g \in DOMAIN game : game[g].st \notin {"unavailable", "no_moves"}

\* C17: for N >= 0 games and a cap >= 1, as long as no game fails, every game
\* is started once and every finished game is saved once, in the order of
\* completion; main does not stop before all N games are saved, and when it
\* returns N games have been started and saved and the pool is empty.
C17_EveryGameSavedOnce ==
    cap >= 1 /\ playouts >= 0 /\ NoGameFailed =>
        /\ started <= playouts
        /\ Len(game) = started
        /\ \A i, j \in DOMAIN outputs : outputs[i] = outputs[j] => i = j
        /\ \A i \in DOMAIN outputs :
              outputs[i] \in 1..started /\ game[outputs[i]].st = "saved"
        /\ main_pc # "failed"
        /\ main_pc = "done" =>
              /\ started = playouts
              /\ Len(outputs) = playouts
              /\ futures = {}

\* ------------------------------------------ claims on the client (continued)
\* C18: the Mutex of `pending` is held by a caller only at its insert and by
\* the reader only at its remove-and-send or at its drain: no task holds it
\* while it writes a request, waits for its response or reads a line, and no
\* task holds it together with the stdin Mutex.
C18_PendingLockHeldForOneMutation ==
    /\ \A c \in Callers :
          /\ pending_lock = Task(c) => pc[c] = "insert" /\ stdin_lock # Task(c)
          /\ pc[c] \in {"lock_stdin", "write_body", "write_newline", "flush",
                        "recv", "idle"} => pending_lock # Task(c)
    /\ pending_lock = ReaderTask => reader_pc \in {"remove", "drain"}
    /\ reader_pc \in {"read", "done", "cancelled"} => pending_lock # ReaderTask
    /\ pending_lock \in {Free, ReaderTask} \cup {Task(c) : c \in Callers}

\* The reader holds the Mutex of `pending` for its remove while a caller is
\* in the middle of writing a request, and another caller waits to insert.
C18_Witness ==
    /\ pending_lock = ReaderTask
    /\ reader_pc = "remove"
    /\ \E c, d \in Callers :
          /\ pc[c] = "write_newline"
          /\ stdin_lock = Task(c)
          /\ pc[d] = "lock_pending"

\* The entry an analyze call of caller c registers.
Entry(c) == [id |-> call_id[c], tx |-> <<c, call_no[c]>>]

\* Some byte of the request of caller c's current call is on the stream or
\* about to be written.
Writing(c) ==
    \/ pc[c] \in {"write_body", "write_newline", "flush"}
    \/ /\ pc[c] # "idle"
       /\ \E i \in DOMAIN stdin_bytes : stdin_bytes[i] = Body(call_id[c])

\* C19: from the first byte of a call's request on, the call's entry is in
\* `pending` until the call's receiver is resolved; so a response the reader
\* handles for a call that still waits finds the entry.
C19_RegisteredBeforeWritten ==
    \A c \in Callers :
        /\ Writing(c) /\ rx[c].st = "empty" => Entry(c) \in pending
        /\ /\ reader_pc \in {"lock_remove", "remove"}
           /\ cur.id = call_id[c]
           /\ pc[c] # "idle"
           /\ rx[c].st = "empty"
           => Entry(c) \in remove(pending, cur.id)

\* The reply arrives before the caller has come to rx.await, and the entry
\* is there for the reader to remove.
C19_Witness ==
    /\ reader_pc = "remove"
    /\ \E c \in Callers :
          /\ cur.id = call_id[c]
          /\ pc[c] = "flush"
          /\ rx[c].st = "empty"
          /\ Entry(c) \in pending

\* C20: with an engine that answers every request line once, in any order,
\* and keeps its output open, under fair scheduling every analyze call that
\* has started returns, and returns the response to its own request.
C20_EveryCallReturns ==
    \A c \in Callers :
        (pc[c] # "idle")
            ~> (pc[c] = "idle" /\ result[c].kind = "ok"
                               /\ result[c].resp = result[c].id)

\* Every caller has its response, the first request having been answered
\* after a later one.
C20_Witness ==
    /\ \A c \in Callers : pc[c] = "idle" /\ result[c].kind = "ok"
    /\ Cardinality(replied) >= 2
    /\ cur = [k |-> "resp", id |-> to_string(<<0, FirstId>>)]
    /\ reader_pc = "read"

====
